---- MODULE Spec2Model ----
(***************************************************************************)
(* A model of file_sort.py: main, process_and_move_files and the two LLM   *)
(* calls, with the directory as a small file system.                       *)
(*                                                                         *)
(* A Python str is a sequence of symbols.  A symbol is a character or a    *)
(* run of characters that the program never looks inside ("fileName",      *)
(* ".pdf", "--move-files"); every literal the program searches for is made *)
(* of whole symbols, so "in", startswith, strip, replace and capitalize    *)
(* are computed on the sequence as Python computes them on the characters. *)
(* A path is the sequence of names below the target directory.             *)
(***************************************************************************)
EXTENDS Integers, Sequences, FiniteSets, TLC

(* ------------------------------ bounds -------------------------------- *)

\* most entries (files and subdirectories) the target directory starts with
MaxFiles == 2

(* --------------------------- str operations --------------------------- *)

\* Optional[str]: None is the empty tuple, a str s is <<s>>
None == <<>>

Some(s) == <<s>>

\* Python truthiness of an Optional[str]: None and "" are false
Truthy(o) == o # None /\ o[1] # <<>>

\* sub in s
Contains(sub, s) ==
    \E i \in 0..(Len(s) - Len(sub)) : SubSeq(s, i + 1, i + Len(sub)) = sub

\* s.startswith(p)
StartsWith(s, p) == Len(p) <= Len(s) /\ SubSeq(s, 1, Len(p)) = p

Whitespace == {" ", "\n"}

RECURSIVE LStrip(_)
LStrip(s) ==
    IF s # <<>> /\ Head(s) \in Whitespace THEN LStrip(Tail(s)) ELSE s

RECURSIVE RStrip(_)
RStrip(s) ==
    IF s # <<>> /\ s[Len(s)] \in Whitespace
    THEN RStrip(SubSeq(s, 1, Len(s) - 1))
    ELSE s

\* s.strip()
Strip(s) == RStrip(LStrip(s))

\* s.replace(old, new), old not empty: left to right, without overlap
RECURSIVE Replace(_, _, _)
Replace(s, old, new) ==
    IF Len(s) < Len(old) THEN s
    ELSE IF SubSeq(s, 1, Len(old)) = old
         THEN new \o Replace(SubSeq(s, Len(old) + 1, Len(s)), old, new)
         ELSE <<Head(s)>> \o Replace(Tail(s), old, new)

Upper(c) == IF c = "a" THEN "A" ELSE c

Lower(c) == IF c = "A" THEN "a" ELSE c

\* s.capitalize(): the first character upper case, the rest lower case
Capitalize(s) ==
    [i \in 1..Len(s) |-> IF i = 1 THEN Upper(s[i]) ELSE Lower(s[i])]

(* ------------------------- names and MIME types ----------------------- *)

SKIP_FILES ==
    { <<".DS_Store">>, <<".localized">>, <<"Thumbs.db">>,
      <<"desktop.ini">>, <<".gitignore">>, <<".gitkeep">> }

\* the skip test of the scanner
IsSkipped(name) == \E skip_file_name \in SKIP_FILES : Contains(skip_file_name, name)

\* mimetypes.guess_type: decided by the last extension of the name
GuessType(name) ==
    IF Len(name) < 2 THEN None
    ELSE CASE name[Len(name)] = ".pdf" -> Some(<<"application/", "pdf">>)
           [] name[Len(name)] = ".zip" -> Some(<<"application/", "zip">>)
           [] name[Len(name)] = ".txt" -> Some(<<"text/", "plain">>)
           [] OTHER -> None

\* file_info["mime_type"]
MimeType(name) ==
    IF GuessType(name) = None THEN <<"unknown">> ELSE GuessType(name)[1]

(* ------------------------------- json --------------------------------- *)

\* A token or a scalar value: t is the kind, s the characters of a string.
Tok(t, s) == [t |-> t, s |-> s]

Punctuation == {"{", "}", "[", "]", ",", ":"}

Digits == {"1"}

\* index of the first double quote of s at or after i, 0 when there is none
RECURSIVE FindQuote(_, _)
FindQuote(s, i) ==
    IF i > Len(s) THEN 0
    ELSE IF s[i] = "\"" THEN i ELSE FindQuote(s, i + 1)

\* the scanner of json.loads: whitespace between tokens is dropped, a string
\* runs to the next double quote, anything unknown is a "bad" token
RECURSIVE Lex(_)
Lex(s) ==
    IF s = <<>> THEN <<>>
    ELSE IF Head(s) \in Whitespace THEN Lex(Tail(s))
    ELSE IF Head(s) = "\"" THEN
        LET j == FindQuote(s, 2)
        IN  IF j = 0 THEN <<Tok("bad", <<>>)>>
            ELSE <<Tok("str", SubSeq(s, 2, j - 1))>> \o Lex(SubSeq(s, j + 1, Len(s)))
    ELSE IF Head(s) \in Punctuation THEN <<Tok(Head(s), <<>>)>> \o Lex(Tail(s))
    ELSE IF Head(s) \in Digits THEN <<Tok("num", <<>>)>> \o Lex(Tail(s))
    ELSE <<Tok("bad", <<>>)>>

IsScalar(tok) == tok.t \in {"str", "num"}

\* key : scalar , key : scalar ...
IsMembers(ts) ==
    /\ Len(ts) % 4 = 3
    /\ \A i \in 1..Len(ts) :
        CASE i % 4 = 1 -> ts[i].t = "str"
          [] i % 4 = 2 -> ts[i].t = ":"
          [] i % 4 = 3 -> IsScalar(ts[i])
          [] OTHER     -> ts[i].t = ","

\* scalar , scalar ...
IsElements(ts) ==
    /\ Len(ts) % 2 = 1
    /\ \A i \in 1..Len(ts) :
        IF i % 2 = 1 THEN IsScalar(ts[i]) ELSE ts[i].t = ","

Inner(ts) == SubSeq(ts, 2, Len(ts) - 1)

IsObject(ts) ==
    /\ Len(ts) >= 2 /\ ts[1].t = "{" /\ ts[Len(ts)].t = "}"
    /\ (Len(ts) = 2 \/ IsMembers(Inner(ts)))

IsArray(ts) ==
    /\ Len(ts) >= 2 /\ ts[1].t = "[" /\ ts[Len(ts)].t = "]"
    /\ (Len(ts) = 2 \/ IsElements(Inner(ts)))

\* whether json.loads(s) returns; otherwise it raises JSONDecodeError
\* (documents of scalars, flat arrays and flat objects)
ValidJSON(s) ==
    LET ts == Lex(s)
    IN  \/ Len(ts) = 1 /\ IsScalar(ts[1])
        \/ IsArray(ts)
        \/ IsObject(ts)

\* the keys of the dict json.loads(s) returns
Keys(s) ==
    LET m == Inner(Lex(s))
    IN  {m[i].s : i \in {j \in 1..Len(m) : j % 4 = 1}}

\* data[key]: the value of the last member with that key
Lookup(s, key) ==
    LET m == Inner(Lex(s))
        last == CHOOSE i \in 1..Len(m) :
                    /\ i % 4 = 1 /\ m[i].s = key
                    /\ \A j \in (i + 1)..Len(m) : ~(j % 4 = 1 /\ m[j].s = key)
    IN  m[last + 2]

IsStr(v) == v.t = "str"

(* --------------------------- the two LLM calls ------------------------ *)

\* A reply of the API: the request failed (RequestException), the reply holds
\* no candidates/content/parts, or it holds a text.
Reply(kind, text) == [kind |-> kind, text |-> text]

\* "<fence>" is the symbol of three backquotes
FenceJson == <<"<fence>", "json">>

Fence == <<"<fence>">>

\* what suggest_name_with_llm returns for a reply
suggest_name_with_llm(reply) ==
    IF reply.kind # "text" THEN None
    ELSE Some(Replace(Replace(Replace(Strip(reply.text), FenceJson, <<>>),
                              Fence, <<>>),
                      <<"\n">>, <<" ">>))

\* what suggest_category_with_llm returns for a reply
suggest_category_with_llm(reply) ==
    IF reply.kind # "text" THEN None
    ELSE Some(Capitalize(Strip(reply.text)))

(* ------------------------ the replies considered ---------------------- *)

Quote(s) == <<"\"">> \o s \o <<"\"">>

Member(key, value) == Quote(<<key>>) \o <<":", " ">> \o value

\* the values a reply gives a field: a new name, the name of another file of
\* the directory, a number; a folder name; a category
FileNameValues ==
    {Quote(<<"New", ".pdf">>), Quote(<<"b", ".txt">>), <<"1">>}

FolderNameValues == {Quote(<<"Folder">>), <<"1">>}

CategoryValues == {Quote(<<"A">>)}

MemberChoices(key, values) == {<<>>} \cup {<<Member(key, v)>> : v \in values}

RECURSIVE Join(_)
Join(members) ==
    IF members = <<>> THEN <<>>
    ELSE IF Len(members) = 1 THEN members[1]
    ELSE members[1] \o <<",", " ">> \o Join(Tail(members))

Object(members) == <<"{">> \o Join(members) \o <<"}">>

\* the reply asked for: the three fields
CompleteObject ==
    Object(<< Member("fileName", Quote(<<"New", ".pdf">>)),
              Member("folderName", Quote(<<"Folder">>)),
              Member("category", Quote(<<"A">>)) >>)

\* objects with or without "fileName" and "folderName", and one without
\* "category"
ObjectTexts ==
    { Object(a \o b \o c) :
        a \in MemberChoices("fileName", FileNameValues),
        b \in MemberChoices("folderName", FolderNameValues),
        c \in {<<Member("category", v)>> : v \in CategoryValues} }
    \cup { Object(<< Member("fileName", Quote(<<"New", ".pdf">>)),
                    Member("folderName", Quote(<<"Folder">>)) >>) }

\* other documents, and texts that are no JSON
OtherTexts ==
    { <<"[", "]">>, Quote(<<"New", ".pdf">>), <<"New", ".pdf">>, <<"{">>, <<>> }

\* the text between the fences of a code block
Fenced(body) == FenceJson \o <<"\n">> \o body \o <<"\n">> \o Fence

\* the texts a name reply may hold: the objects in a code block, the complete
\* object also bare, the other texts bare, an empty code block
NameTexts ==
    {Fenced(b) : b \in ObjectTexts}
        \cup {CompleteObject} \cup OtherTexts \cup {Fenced(<<>>)}

NameReplies ==
    {Reply("request_error", <<>>), Reply("no_candidates", <<>>)}
        \cup {Reply("text", t) : t \in NameTexts}

\* the texts a category reply may hold
CategoryTexts ==
    { <<>>, <<" ", "\n">>, <<"a", "a">>, <<"A", "A">>,
      <<" ", "a", "A", "\n">> }

CategoryReplies ==
    {Reply("request_error", <<>>), Reply("no_candidates", <<>>)}
        \cup {Reply("text", t) : t \in CategoryTexts}

(* --------------------------- the file system -------------------------- *)

\* the names the target directory may start with
FilePool ==
    { <<"a", ".pdf">>, <<"b", ".txt">>, <<"c", ".zip">>,
      <<".DS_Store">>, <<"my", ".gitkeep">> }

\* the subdirectories it may start with: what an earlier run left behind
DirPool == { <<"Books">> }

SubdirsOf(d) == { <<d>>, <<d, <<"Folder">>>> }

ContentsOf(d) == { <<d, <<"Folder">>, <<"a", ".pdf">>>> }

\* the command lines considered: sys.argv, the script's name first
ArgvPool ==
    { << <<"file_sort.py">> >>,
      << <<"file_sort.py">>, <<"/data">> >>,
      << <<"file_sort.py">>, <<"/data">>, <<"--move-files">> >>,
      << <<"file_sort.py">>, <<"/data">>, <<"--rename-files">> >>,
      << <<"file_sort.py">>, <<"/data">>, <<"--rename-files">>,
         <<"--move-files">> >>,
      << <<"file_sort.py">>, <<"/data/", "--move-files", "-inbox">> >> }

VARIABLES
    argv,                \* sys.argv
    pc,                  \* where the program is
    move_files,          \* main's move_files
    rename_files,        \* main's rename_files_flag
    is_dir,              \* whether directory_path names a directory
    files,               \* the regular files below the directory: path -> content
    dirs,                \* the subdirectories under the directory: paths
    todo,                \* the entries of directory.iterdir() not yet visited
    file_path,           \* the entry being processed (its name)
    response,            \* the API reply the running suggest_* call holds
    suggested_responses, \* Optional[str] returned by suggest_name_with_llm
    file_name,           \* data["fileName"]
    folder_name,         \* data["folderName"]
    category_folder,     \* the category folder
    exc,                 \* the exception being raised
    log,                 \* what was requested, done and printed, in order
    files0,              \* the files when the run started
    dirs0                \* the subdirectories when the run started

vars ==
    << argv, pc, move_files, rename_files, is_dir, files, dirs, todo,
       file_path, response, suggested_responses, file_name, folder_name,
       category_folder, exc, log, files0, dirs0 >>

NoValue == Tok("none", <<>>)

NoName == <<>>

NoReply == Reply("", <<>>)

Event(f, ev) == [f |-> f, ev |-> ev]

Init ==
    /\ argv \in ArgvPool
    /\ pc = "main"
    /\ move_files = FALSE
    /\ rename_files = FALSE
    /\ is_dir \in BOOLEAN
    /\ \E fs \in SUBSET FilePool, ds \in SUBSET DirPool :
        /\ Cardinality(fs) + Cardinality(ds) <= MaxFiles
        /\ is_dir = FALSE => fs = {} /\ ds = {}
        /\ files = [p \in {<<n>> : n \in fs}
                            \cup UNION {ContentsOf(d) : d \in ds} |-> p]
        /\ dirs = UNION {SubdirsOf(d) : d \in ds}
    /\ todo = {}
    /\ file_path = NoName
    /\ response = NoReply
    /\ suggested_responses = None
    /\ file_name = NoValue
    /\ folder_name = NoValue
    /\ category_folder = NoName
    /\ exc = ""
    /\ log = <<>>
    /\ files0 = files
    /\ dirs0 = dirs

(* -------------------------------- main -------------------------------- *)

\* any(option in arg for arg in sys.argv)
HasOption(option, args) == \E i \in 1..Len(args) : Contains(option, args[i])

\* len(sys.argv) < 2: the usage text, sys.exit(1)
Usage ==
    /\ pc = "main"
    /\ Len(argv) < 2
    /\ pc' = "usage"
    /\ UNCHANGED << argv, move_files, rename_files, is_dir, files, dirs, todo,
                    file_path, response, suggested_responses, file_name,
                    folder_name, category_folder, exc, log, files0, dirs0 >>

\* main reads the flags and calls process_and_move_files
Main ==
    /\ pc = "main"
    /\ Len(argv) >= 2
    /\ move_files' = HasOption(<<"--move-files">>, argv)
    /\ rename_files' = HasOption(<<"--rename-files">>, argv)
    /\ pc' = "start"
    /\ UNCHANGED << argv, is_dir, files, dirs, todo, file_path, response,
                    suggested_responses, file_name, folder_name,
                    category_folder, exc, log, files0, dirs0 >>

(* ----------------------- process_and_move_files ----------------------- *)

\* what every return to the head of the loop leaves behind
BackToLoop ==
    /\ pc' = "loop"
    /\ file_path' = NoName
    /\ response' = NoReply
    /\ suggested_responses' = None
    /\ file_name' = NoValue
    /\ folder_name' = NoValue
    /\ category_folder' = NoName
    /\ exc' = ""

\* the path does not exist or is no directory: an error line, return
InvalidDirectory ==
    /\ pc = "start"
    /\ ~is_dir
    /\ pc' = "done"
    /\ log' = Append(log, Event(NoName, "invalid_directory"))
    /\ UNCHANGED << argv, move_files, rename_files, is_dir, files, dirs, todo,
                    file_path, response, suggested_responses, file_name,
                    folder_name, category_folder, exc, files0, dirs0 >>

\* directory.iterdir(): the names of the immediate children, read once
Children == {p[1] : p \in {q \in DOMAIN files \cup dirs : Len(q) = 1}}

ListDirectory ==
    /\ pc = "start"
    /\ is_dir
    /\ todo' = Children
    /\ pc' = "loop"
    /\ UNCHANGED << argv, move_files, rename_files, is_dir, files, dirs,
                    file_path, response, suggested_responses, file_name,
                    folder_name, category_folder, exc, log, files0, dirs0 >>

\* file_path.is_file()
IsFile(name) == <<name>> \in DOMAIN files

\* an entry that is no regular file is passed over
SkipEntry(e) ==
    /\ pc = "loop"
    /\ e \in todo
    /\ ~IsFile(e)
    /\ todo' = todo \ {e}
    /\ UNCHANGED << argv, pc, move_files, rename_files, is_dir, files, dirs,
                    file_path, response, suggested_responses, file_name,
                    folder_name, category_folder, exc, log, files0, dirs0 >>

\* a file whose name holds a name of SKIP_FILES: "Skipping file", continue
SkipJunk(e) ==
    /\ pc = "loop"
    /\ e \in todo
    /\ IsFile(e)
    /\ IsSkipped(e)
    /\ todo' = todo \ {e}
    /\ log' = Append(log, Event(e, "skipped"))
    /\ UNCHANGED << argv, pc, move_files, rename_files, is_dir, files, dirs,
                    file_path, response, suggested_responses, file_name,
                    folder_name, category_folder, exc, files0, dirs0 >>

\* "Processing file", get_file_info
BeginFile(e) ==
    /\ pc = "loop"
    /\ e \in todo
    /\ IsFile(e)
    /\ ~IsSkipped(e)
    /\ todo' = todo \ {e}
    /\ file_path' = e
    /\ pc' = "name_call"
    /\ log' = Append(log, Event(e, "processing"))
    /\ UNCHANGED << argv, move_files, rename_files, is_dir, files, dirs,
                    response, suggested_responses, file_name, folder_name,
                    category_folder, exc, files0, dirs0 >>

\* the loop has visited every entry
EndLoop ==
    /\ pc = "loop"
    /\ todo = {}
    /\ pc' = "done"
    /\ UNCHANGED << argv, move_files, rename_files, is_dir, files, dirs, todo,
                    file_path, response, suggested_responses, file_name,
                    folder_name, category_folder, exc, log, files0, dirs0 >>

\* suggest_name_with_llm(file_info): the request is posted, a reply arrives
NameRequest ==
    /\ pc = "name_call"
    /\ \E r \in NameReplies : response' = r
    /\ log' = Append(log, Event(file_path, "name_request"))
    /\ pc' = "name_reply"
    /\ UNCHANGED << argv, move_files, rename_files, is_dir, files, dirs, todo,
                    file_path, suggested_responses, file_name, folder_name,
                    category_folder, exc, files0, dirs0 >>

\* faulty variant of NameReturn: a failed request is posted again
NameReturn_retry ==
    /\ pc = "name_reply"
    /\ suggested_responses' = suggest_name_with_llm(response)
    /\ response' = NoReply
    /\ pc' = IF response.kind = "request_error" THEN "name_call"
             ELSE "got_response"
    /\ UNCHANGED << argv, move_files, rename_files, is_dir, files, dirs, todo,
                    file_path, file_name, folder_name, category_folder, exc,
                    log, files0, dirs0 >>

\* suggest_name_with_llm returns the cleaned text or None
NameReturn ==
    /\ pc = "name_reply"
    /\ suggested_responses' = suggest_name_with_llm(response)
    /\ response' = NoReply
    /\ pc' = "got_response"
    /\ UNCHANGED << argv, move_files, rename_files, is_dir, files, dirs, todo,
                    file_path, file_name, folder_name, category_folder, exc,
                    log, files0, dirs0 >>

\* faulty variant of NoSuggestion: the body of the "if" dedented, so that a
\* file without suggestion goes on to the categorizer
NoSuggestion_falls_through ==
    /\ pc = "got_response"
    /\ ~Truthy(suggested_responses)
    /\ pc' = "categorize"
    /\ UNCHANGED << argv, move_files, rename_files, is_dir, files, dirs, todo,
                    file_path, response, suggested_responses, file_name,
                    folder_name, category_folder, exc, log, files0, dirs0 >>

\* if suggested_responses: ... else: "Couldn't get suggestions"
NoSuggestion ==
    /\ pc = "got_response"
    /\ ~Truthy(suggested_responses)
    /\ log' = Append(log, Event(file_path, "no_suggestion"))
    /\ BackToLoop
    /\ UNCHANGED << argv, move_files, rename_files, is_dir, files, dirs, todo,
                    files0, dirs0 >>

\* the exception json.loads and the two subscripts raise, "" when none
ParseError(s) ==
    IF ~ValidJSON(s) THEN "JSONDecodeError"
    ELSE IF ~IsObject(Lex(s)) THEN "TypeError"
    ELSE IF <<"fileName">> \notin Keys(s) THEN "KeyError"
    ELSE IF <<"folderName">> \notin Keys(s) THEN "KeyError"
    ELSE ""

\* data = json.loads(...); file_name = data["fileName"]; folder_name = ...
ParseResponse ==
    /\ pc = "got_response"
    /\ Truthy(suggested_responses)
    /\ LET s == suggested_responses[1]
       IN  IF ParseError(s) # ""
           THEN /\ exc' = ParseError(s)
                /\ pc' = "raise"
                /\ UNCHANGED << file_name, folder_name, log >>
           ELSE /\ file_name' = Lookup(s, <<"fileName">>)
                /\ folder_name' = Lookup(s, <<"folderName">>)
                /\ pc' = "categorize"
                /\ log' = Append(log, Event(file_path, "parsed"))
                /\ exc' = exc
    /\ UNCHANGED << argv, move_files, rename_files, is_dir, files, dirs, todo,
                    file_path, response, suggested_responses, category_folder,
                    files0, dirs0 >>

\* faulty variant of MimeCategory: the prefix test made first, so that a PDF
\* is taken for software
MimeCategory_prefix_first(mime_type) ==
    IF StartsWith(mime_type, <<"application/">>) THEN Some(<<"Software">>)
    ELSE IF mime_type = <<"application/", "pdf">> THEN Some(<<"Books">>)
    ELSE None

\* the category the MIME type alone decides, None when it decides none
MimeCategory(mime_type) ==
    IF mime_type = <<"application/", "pdf">> THEN Some(<<"Books">>)
    ELSE IF StartsWith(mime_type, <<"application/">>) THEN Some(<<"Software">>)
    ELSE None

\* category_folder = "Books" / "Software"
CategoryByMime ==
    /\ pc = "categorize"
    /\ MimeCategory(MimeType(file_path)) # None
    /\ category_folder' = MimeCategory(MimeType(file_path))[1]
    /\ log' = Append(log, Event(file_path, "category"))
    /\ pc' = "act"
    /\ UNCHANGED << argv, move_files, rename_files, is_dir, files, dirs, todo,
                    file_path, response, suggested_responses, file_name,
                    folder_name, exc, files0, dirs0 >>

\* suggest_category_with_llm(file_info) or "Uncategorized"
OrUncategorized(category) ==
    IF Truthy(category) THEN category[1] ELSE <<"Uncategorized">>

\* suggest_category_with_llm(file_info): the request is posted, a reply arrives
CategoryRequest ==
    /\ pc = "categorize"
    /\ MimeCategory(MimeType(file_path)) = None
    /\ \E r \in CategoryReplies : response' = r
    /\ log' = Append(log, Event(file_path, "category_request"))
    /\ pc' = "category_reply"
    /\ UNCHANGED << argv, move_files, rename_files, is_dir, files, dirs, todo,
                    file_path, suggested_responses, file_name, folder_name,
                    category_folder, exc, files0, dirs0 >>

\* category_folder = suggest_category_with_llm(file_info) or "Uncategorized"
CategoryReturn ==
    /\ pc = "category_reply"
    /\ category_folder' = OrUncategorized(suggest_category_with_llm(response))
    /\ response' = NoReply
    /\ log' = Append(log, Event(file_path, "category"))
    /\ pc' = "act"
    /\ UNCHANGED << argv, move_files, rename_files, is_dir, files, dirs, todo,
                    file_path, suggested_responses, file_name, folder_name,
                    exc, files0, dirs0 >>

(* ------------------------ the file system calls ----------------------- *)

\* the files after src was renamed to dst: dst is replaced when it exists
Renamed(fs, src, dst) ==
    [p \in (DOMAIN fs \ {src}) \cup {dst} |-> IF p = dst THEN fs[src] ELSE fs[p]]

\* faulty variant of CanRename: a rename that refuses an existing destination
CanRename_no_clobber(src, dst) ==
    /\ src \in DOMAIN files
    /\ dst \notin dirs
    /\ dst \notin DOMAIN files
    /\ Len(dst) >= 1
    /\ (Len(dst) = 1 \/ SubSeq(dst, 1, Len(dst) - 1) \in dirs)

\* whether os.rename(src, dst) can succeed: dst is no directory and its
\* parent is one
CanRename(src, dst) ==
    /\ src \in DOMAIN files
    /\ dst \notin dirs
    /\ Len(dst) >= 1
    /\ (Len(dst) = 1 \/ SubSeq(dst, 1, Len(dst) - 1) \in dirs)

\* whether a regular file stands where target or one of its parents must be
MkdirBlocked(target) ==
    \E i \in 1..Len(target) : SubSeq(target, 1, i) \in DOMAIN files

\* target and its parents
WithParents(target) == {SubSeq(target, 1, i) : i \in 1..Len(target)}

\* the directories a failed mkdir(parents=True) may leave: none new, or the
\* parents it made before the call that failed
AfterFailedMkdir(target) ==
    {dirs} \cup
    {dirs \cup {SubSeq(target, 1, i) : i \in 1..n} :
        n \in {k \in 1..(Len(target) - 1) : ~MkdirBlocked(SubSeq(target, 1, k))}}

(* ------------------------------ the action ---------------------------- *)

\* faulty variant of Mutating: the dry-run test always taken as true
Mutating_always == TRUE

\* if move_files or rename_files
Mutating == move_files \/ rename_files

\* directory / category_folder / folder_name
TargetFolder == <<category_folder, folder_name.s>>

\* faulty variant of TargetFilename: the two branches exchanged
TargetFilename_swapped ==
    IF rename_files THEN Tok("str", file_path) ELSE file_name

\* target_filename = file_name if rename_files else file_path.name
TargetFilename == IF rename_files THEN file_name ELSE Tok("str", file_path)

\* the dry run: only prints
DryRun ==
    /\ pc = "act"
    /\ ~Mutating
    /\ log' = Append(log, Event(file_path, "would"))
    /\ BackToLoop
    /\ UNCHANGED << argv, move_files, rename_files, is_dir, files, dirs, todo,
                    files0, dirs0 >>

Raise(e) ==
    /\ exc' = e
    /\ pc' = "raise"
    /\ UNCHANGED << argv, move_files, rename_files, is_dir, files, todo,
                    file_path, response, suggested_responses, file_name,
                    folder_name, category_folder, log, files0, dirs0 >>

\* target_folder = directory / category_folder / folder_name
\* target_folder.mkdir(parents=True, exist_ok=True)
MakeFolder ==
    /\ pc = "act"
    /\ Mutating
    /\ move_files
    /\ \/ /\ ~IsStr(folder_name)
          /\ Raise("TypeError")
          /\ dirs' = dirs
       \/ /\ IsStr(folder_name)
          /\ ~MkdirBlocked(TargetFolder)
          /\ dirs' = dirs \cup WithParents(TargetFolder)
          /\ pc' = "move"
          /\ log' = Append(log, Event(file_path, "mkdir"))
          /\ UNCHANGED << argv, move_files, rename_files, is_dir, files, todo,
                          file_path, response, suggested_responses, file_name,
                          folder_name, category_folder, exc, files0, dirs0 >>
       \/ /\ IsStr(folder_name)
          /\ dirs' \in AfterFailedMkdir(TargetFolder)
          /\ Raise("OSError")

\* file_path.rename(new_path), the line printed after it
RenameTo(dst) ==
    \/ /\ CanRename(<<file_path>>, dst)
       /\ files' = Renamed(files, <<file_path>>, dst)
       /\ log' = Append(log, Event(file_path, "renamed"))
       /\ BackToLoop
       /\ UNCHANGED << argv, move_files, rename_files, is_dir, dirs, todo,
                       files0, dirs0 >>
    \/ /\ Raise("OSError")
       /\ dirs' = dirs

\* new_path = target_folder / target_filename; file_path.rename(new_path)
MoveFile ==
    /\ pc = "move"
    /\ \/ /\ ~IsStr(TargetFilename)
          /\ Raise("TypeError")
          /\ dirs' = dirs
       \/ /\ IsStr(TargetFilename)
          /\ RenameTo(Append(TargetFolder, TargetFilename.s))

\* new_path = file_path.parent / file_name; file_path.rename(new_path)
RenameInPlace ==
    /\ pc = "act"
    /\ Mutating
    /\ ~move_files
    /\ \/ /\ ~IsStr(file_name)
          /\ Raise("TypeError")
          /\ dirs' = dirs
       \/ /\ IsStr(file_name)
          /\ RenameTo(<<file_name.s>>)

\* faulty variant of Caught: the except clause without JSONDecodeError
Caught_only_oserror == {"OSError"}

\* except (OSError, json.JSONDecodeError)
Caught == {"OSError", "JSONDecodeError"}

\* the except clause: "Error processing file", on to the next entry
HandleError ==
    /\ pc = "raise"
    /\ exc \in Caught
    /\ log' = Append(log, Event(file_path, "error"))
    /\ BackToLoop
    /\ UNCHANGED << argv, move_files, rename_files, is_dir, files, dirs, todo,
                    files0, dirs0 >>

\* any other exception leaves the loop, the function and main
Abort ==
    /\ pc = "raise"
    /\ exc \notin Caught
    /\ pc' = "aborted"
    /\ UNCHANGED << argv, move_files, rename_files, is_dir, files, dirs, todo,
                    file_path, response, suggested_responses, file_name,
                    folder_name, category_folder, exc, log, files0, dirs0 >>

Next ==
    \/ Usage
    \/ Main
    \/ InvalidDirectory
    \/ ListDirectory
    \/ \E e \in todo : SkipEntry(e)
    \/ \E e \in todo : SkipJunk(e)
    \/ \E e \in todo : BeginFile(e)
    \/ EndLoop
    \/ NameRequest
    \/ NameReturn
    \/ NoSuggestion
    \/ ParseResponse
    \/ CategoryByMime
    \/ CategoryRequest
    \/ CategoryReturn
    \/ DryRun
    \/ MakeFolder
    \/ MoveFile
    \/ RenameInPlace
    \/ HandleError
    \/ Abort

Spec == Init /\ [][Next]_vars

(* ------------------------------- claims ------------------------------- *)

\* positions of the log where event ev of entry f stands
Idx(f, ev) == {i \in 1..Len(log) : log[i] = Event(f, ev)}

\* positions of the log where an event ev stands, of any entry
Where(ev) == {i \in 1..Len(log) : log[i].ev = ev}

\* the entries whose processing began
Begun == {log[i].f : i \in Where("processing")}

PdfType == <<"application/", "pdf">>

IsApplication(name) == MimeType(name)[1] = "application/"

\* the files after the file at src went to dst, written out
MovedTo(src, dst) ==
    /\ DOMAIN files' = (DOMAIN files \ {src}) \cup {dst}
    /\ files'[dst] = files[src]
    /\ \A p \in DOMAIN files' \ {dst} : files'[p] = files[p]

\* C1: in a dry run (move_files and rename_files both false) the files and
\* the directories below the target directory are those the run started with.
C1_DryRunChangesNothing ==
    (~move_files /\ ~rename_files) => (files = files0 /\ dirs = dirs0)

\* a dry run that went through two files and printed the plan for both
C1_Witness ==
    /\ pc = "done"
    /\ ~move_files /\ ~rename_files
    /\ Cardinality(Where("would")) >= 2

\* C2: the files change only by the one rename of the file being processed,
\* to directory/category/folderName/<its own name> with only move_files, to
\* <its parent>/fileName with only rename_files, to
\* directory/category/folderName/fileName with both; no file is renamed
\* twice, and without move_files no directory is created.
C2_DestinationByFlags ==
    /\ [][ files' # files =>
            LET f == file_path
                dst == IF move_files
                       THEN << category_folder, folder_name.s,
                               IF rename_files THEN file_name.s ELSE f >>
                       ELSE << file_name.s >>
            IN  /\ move_files \/ rename_files
                /\ f # NoName
                /\ MovedTo(<<f>>, dst)
                /\ Idx(f, "renamed") = {}
                /\ log' = Append(log, Event(f, "renamed")) ]_vars
    /\ [][ ~move_files => dirs' = dirs ]_vars
    /\ [](\A f \in Begun : Cardinality(Idx(f, "renamed")) <= 1)

\* a run with only move_files that put a.pdf, under its own name, below
\* Books/Folder, and one file more
C2_Witness ==
    /\ pc = "done"
    /\ move_files /\ ~rename_files
    /\ dirs0 = {}
    /\ << <<"Books">>, <<"Folder">>, <<"a", ".pdf">> >> \in DOMAIN files
    /\ Cardinality(Where("renamed")) >= 2

\* C3: the category folder is "Books" for application/pdf, "Software" for any
\* other application/ type, and otherwise the capitalized text of the
\* category reply, "Uncategorized" when that reply has no text; the category
\* request is sent only for files that are not application/, and for each
\* of those.
C3_CategoryFromMime ==
    /\ [](category_folder # NoName =>
            /\ MimeType(file_path) = PdfType => category_folder = <<"Books">>
            /\ (IsApplication(file_path) /\ MimeType(file_path) # PdfType)
                  => category_folder = <<"Software">>
            /\ IsApplication(file_path) <=> Idx(file_path, "category_request") = {})
    /\ [](\A i \in Where("category_request") : ~IsApplication(log[i].f))
    /\ [][ pc = "category_reply" =>
            LET t == Strip(response.text)
                c == category_folder'
            IN  IF response.kind = "text" /\ t # <<>>
                THEN /\ Len(c) = Len(t)
                     /\ c[1] = Upper(t[1])
                     /\ \A i \in 2..Len(t) : c[i] = Lower(t[i])
                ELSE c = <<"Uncategorized">> ]_vars

\* the text file got the category "Aa" from a reply, the PDF processed before
\* it got "Books"
C3_Witness ==
    /\ pc = "act"
    /\ file_path = <<"b", ".txt">>
    /\ category_folder = <<"A", "a">>
    /\ Idx(<<"a", ".pdf">>, "category") # {}

\* C4: at the end of a run, the entries a name request was sent for are the
\* regular files whose name is none of SKIP_FILES.
C4_SkipsExactlyJunk ==
    pc = "done" =>
        \A p \in DOMAIN files0 \cup dirs0 :
            Len(p) = 1 =>
                (Idx(p[1], "name_request") # {}
                    <=> (p \in DOMAIN files0 /\ p[1] \notin SKIP_FILES))

\* the value suggest_name_with_llm returned holds no text
NoText(o) == o = None \/ o = Some(<<>>)

\* the events of entry f up to position i hold a, b and c in this order
InOrder(f, i, a, b, c) ==
    \E x, y, z \in 1..i :
        /\ x < y /\ y < z /\ z <= i
        /\ log[x] = Event(f, a) /\ log[y] = Event(f, b) /\ log[z] = Event(f, c)

\* C5: per file the order is name request, parse, category, action: the
\* files and directories change only for the file being processed, after
\* its name request, its parse and its category; the events of one file are
\* not interleaved with those of another; a file whose name call returned no
\* text gets no category request and no file system action.
C5_SequentialPerFile ==
    /\ [][ (files' # files \/ dirs' # dirs) =>
            /\ file_path # NoName
            /\ InOrder(file_path, Len(log), "name_request", "parsed", "category") ]_vars
    /\ [](\A i \in Where("category_request") :
            \E x, y \in 1..i :
                /\ x < y /\ y < i
                /\ log[x] = Event(log[i].f, "name_request")
                /\ log[y] = Event(log[i].f, "parsed"))
    /\ [](\A i \in 2..Len(log) :
            log[i].f # log[i - 1].f =>
                \A j \in 1..(i - 1) : log[j].f # log[i].f)
    /\ [](file_path # NoName => log[Len(log)].f = file_path)
    /\ []((pc \notin {"name_call", "name_reply"} /\ file_path # NoName
            /\ NoText(suggested_responses))
          => pc = "got_response")
    /\ [][ (pc = "got_response" /\ NoText(suggested_responses)) =>
            /\ files' = files /\ dirs' = dirs
            /\ pc' = "loop"
            /\ log' = Append(log, Event(file_path, "no_suggestion")) ]_vars
    /\ [](\A i \in Where("no_suggestion") :
            \A ev \in {"parsed", "category_request", "category", "mkdir", "renamed"} :
                Idx(log[i].f, ev) = {})

\* a run in which one file got no suggestion and the file after it was moved
C5_Witness ==
    /\ pc = "done"
    /\ \E i \in Where("no_suggestion") : \E j \in Where("mkdir") :
        /\ i < j
        /\ Idx(log[j].f, "renamed") # {}

\* C6: when the text is no valid JSON the parse raises and changes nothing;
\* an OSError or JSONDecodeError ends in the error line of that file, with
\* the file still at its path, no file changed and the loop at its head with
\* the entries left to visit unchanged.
C6_ErrorsAreCaught ==
    /\ [][ (pc = "got_response" /\ ~NoText(suggested_responses)
            /\ ~ValidJSON(suggested_responses[1])) =>
            /\ pc' = "raise" /\ exc' = "JSONDecodeError"
            /\ files' = files /\ dirs' = dirs /\ log' = log ]_vars
    /\ []((pc = "raise" /\ exc \in {"OSError", "JSONDecodeError"}) =>
            <<file_path>> \in DOMAIN files)
    /\ [][ (pc = "raise" /\ exc \in {"OSError", "JSONDecodeError"}) =>
            /\ log' = Append(log, Event(file_path, "error"))
            /\ files' = files
            /\ pc' = "loop"
            /\ todo' = todo ]_vars

\* a run in which the first file met an error and stayed, and the second
\* file was processed after it
C6_Witness ==
    /\ pc = "done"
    /\ \E i \in Where("error") : \E j \in Where("name_request") :
        /\ i < j
        /\ <<log[i].f>> \in DOMAIN files

\* C7: for every file at most one name request and at most one category
\* request is sent; a failed name request returns None, a failed category
\* request gives "Uncategorized", and neither is sent again.
C7_NoRetry ==
    /\ [](\A f \in Begun :
            /\ Cardinality(Idx(f, "name_request")) <= 1
            /\ Cardinality(Idx(f, "category_request")) <= 1)
    /\ [][ (pc = "name_reply" /\ response.kind = "request_error") =>
            /\ suggested_responses' = None
            /\ pc' = "got_response" ]_vars
    /\ [][ (pc = "category_reply" /\ response.kind = "request_error") =>
            /\ category_folder' = <<"Uncategorized">>
            /\ pc' = "act" ]_vars
    /\ [][ (pc = "got_response" /\ suggested_responses = None) =>
            log' = Append(log, Event(file_path, "no_suggestion")) ]_vars

\* the name request of the second file failed, after the category request
\* of the first had failed
C7_Witness ==
    /\ pc = "name_reply"
    /\ response.kind = "request_error"
    /\ \E f \in Begun : f # file_path /\ Idx(f, "category_request") # {}

\* the place a rename is about to be issued for, when the program is at one
AtRename(dst) ==
    \/ /\ pc = "move"
       /\ IsStr(folder_name)
       /\ IF rename_files THEN IsStr(file_name) ELSE TRUE
       /\ dst = << category_folder, folder_name.s,
                   IF rename_files THEN file_name.s ELSE file_path >>
    \/ /\ pc = "act" /\ ~move_files /\ rename_files
       /\ IsStr(file_name)
       /\ dst = << file_name.s >>

\* C8: whenever a rename is about to be issued and its destination is
\* another existing file, the rename can go through, the destination then
\* holds the renamed file and there is one regular file less.
C8_NoCollisionCheck ==
    \A dst \in DOMAIN files :
        (AtRename(dst) /\ dst # <<file_path>>) =>
            ENABLED ( /\ Next
                      /\ files' = [p \in DOMAIN files \ {<<file_path>>} |->
                                    IF p = dst THEN files[<<file_path>>]
                                    ELSE files[p]] )

\* a finished run with move_files that left fewer regular files than it found
C8_Witness ==
    /\ pc = "done"
    /\ move_files
    /\ Cardinality(DOMAIN files) < Cardinality(DOMAIN files0)

\* C9: the run never aborts, and at its end every file whose processing
\* began has exactly one outcome: an action done or printed, an error line,
\* or the line that no suggestion could be obtained.
C9_EveryFileOneOutcome ==
    /\ pc # "aborted"
    /\ pc = "done" =>
        \A f \in Begun :
            Cardinality(Idx(f, "renamed") \cup Idx(f, "would")
                        \cup Idx(f, "error") \cup Idx(f, "no_suggestion")) = 1

\* C10: after main has read the command line, move_files is true exactly
\* when an argument is --move-files and rename_files exactly when an
\* argument is --rename-files.
C10_FlagsFromOptions ==
    pc \notin {"main", "usage"} =>
        /\ move_files <=> \E i \in 1..Len(argv) : argv[i] = <<"--move-files">>
        /\ rename_files <=> \E i \in 1..Len(argv) : argv[i] = <<"--rename-files">>

====
